---- MODULE Spec2Model ----
(***************************************************************************)
(* Carla ring buffer (CarlaRingBuffer.hpp): HeapBuffer / StackBuffer,      *)
(* the CarlaRingBuffer<BufferStruct> engine, CarlaHeapRingBuffer and       *)
(* CarlaStackRingBuffer.                                                   *)
(*                                                                         *)
(* The specifications share the variables:                                 *)
(*   Spec        the heap ring buffer from its constructor on:             *)
(*               createBuffer, deleteBuffer, clear, writes, commitWrite    *)
(*               and reads, every call atomic;                             *)
(*   SpecEngine  the engine bound once to a cleared buffer, then any       *)
(*               sequence of clear, writes, commitWrite and reads;         *)
(*   SpecBuffers SpecEngine, and beside it the stack ring buffer from its  *)
(*               construction on;                                          *)
(*   SpecScalars the typed writers and the unsigned typed readers on a     *)
(*               buffer that takes a scalar of 8 bytes;                    *)
(*   SpecHeap    createBuffer, deleteBuffer and the destructor;            *)
(*   SpecCopy    HeapBuffer::copyDataFrom between two HeapBuffers;         *)
(*   SpecSPSC    one producer thread and one consumer thread whose loads   *)
(*               and stores of the cursors and of the storage bytes        *)
(*               interleave, each taking effect in program order;          *)
(*   SpecLive    SpecSPSC with a producer that retries a group of writes   *)
(*               until commitWrite succeeds, both threads weakly fair;     *)
(*   SpecMP      two threads that write to the same buffer.                *)
(***************************************************************************)
EXTENDS Integers, Sequences, FiniteSets, TLC

\* ------------------------------------------------------------------ bounds

\* largest size requested from createBuffer
MaxSize == 3

\* largest byte count handed to one read or write
MaxLen == 4

\* the size createBuffer is given for the typed readers and writers: the
\* capacity it yields takes a scalar of 8 bytes
ScalarSize == 9

\* the typed writers are called while wrtn is below this
MaxScalarCursor == 1

\* largest number of writes in a group the producer retries
MaxGroupItems == 2

\* largest capacity of the HeapBuffers copyDataFrom is tried on
MaxCopySize == 2

\* largest byte count one call of the interleaved threads is given
MaxLenSPSC == 3

\* the stack ring buffer takes writes while wrtn is below this
MaxStackCursor == 1

\* largest byte count handed to one write of the stack ring buffer
MaxStackLen == 2

\* StackBuffer::size
StackBufferSize == 4096

\* byte values the model stores (uint8_t values, abstracted to two)
Byte == {0, 1}

\* ------------------------------------------------------------------- state

VARIABLES
    fBuffer,            \* CarlaRingBuffer::fBuffer: "null", "heap" (&fHeapBuffer)
                        \* or "stack" (&fStackBuffer)
    size,               \* fHeapBuffer.size (StackBuffer::size)
    head,               \* fHeapBuffer.head
    tail,               \* fHeapBuffer.tail
    wrtn,               \* fHeapBuffer.wrtn
    invalidateCommit,   \* fHeapBuffer.invalidateCommit
    bufPtr,             \* fHeapBuffer.buf as a pointer: "null", "wild" or "live"
    buf,                \* the bytes fHeapBuffer.buf points to, [0..size-1 -> Byte]
    fault,              \* an out-of-bounds copy has ended the process
    last,               \* the last call made and what it returned
    pending,            \* ghost: bytes stored by the successful writes since the last commit
    committed,          \* ghost: committed bytes that no read has returned yet
    groupFailed,        \* ghost: some write since the last commit returned failure
    txn,                \* ghost: progress of a write A / failed write B / commit sequence
    tracked,            \* ghost: the queues above describe the bound storage
    prod,               \* SpecSPSC: the producer thread (pc and locals)
    cons,               \* SpecSPSC: the consumer thread (pc and locals)
    writers,            \* SpecMP: two threads that both call tryWrite
    group,              \* SpecLive: the group of writes the producer is at
    rb,                 \* SpecCopy: the HeapBuffer handed to copyDataFrom
    leaked              \* ghost: storage from new[] whose address was overwritten

bufVars   == <<fBuffer, size, head, tail, wrtn, invalidateCommit, bufPtr, buf, fault>>
ghostVars == <<pending, committed, groupFailed, txn, tracked>>
thrVars   == <<prod, cons, writers, group>>
heapVars  == <<rb, leaked>>
vars      == <<bufVars, last, ghostVars, thrVars, heapVars>>

\* ----------------------------------------------------------------- helpers

NoBytes == <<>>

\* all byte strings of length 0..n
BytesUpTo(n) == UNION {[1..k -> Byte] : k \in 0..n}

\* storage of c bytes, all zero (carla_zeroBytes)
ZeroBuf(c) == [i \in 0..(c - 1) |-> 0]

\* n zero bytes as a destination buffer (carla_zeroBytes on the caller's data)
ZeroBytes(n) == [i \in 1..n |-> 0]

\* circular distance from a forward to b in a region of c bytes
Dist(a, b, c) == (b - a + c) % c

\* the bytes at positions from, from+1, ... (modulo c), n of them
Region(b, from, n, c) == [i \in 1..n |-> b[(from + i - 1) % c]]

\* the bytes a reader may consume: from tail up to head, in order
Readable == Region(buf, tail, Dist(tail, head, size), size)

\* carla_nextPowerOf2 (CarlaMathUtils.hpp): smallest power of two >= n, n > 0
RECURSIVE PowerOf2From(_, _)
PowerOf2From(p, n) == IF p >= n THEN p ELSE PowerOf2From(2 * p, n)

carla_nextPowerOf2(n) == PowerOf2From(1, n)

\* std::memcpy(dst + at, src + from, n) for a range inside dst
Memcpy(dst, at, src, from, n) ==
    [i \in DOMAIN dst |->
        IF i >= at /\ i < at + n THEN src[from + (i - at) + 1] ELSE dst[i]]

\* a call record: the operation, whether its data pointer was not null (ptr),
\* its size argument, what it returned (ok), the caller's bytes (out: the
\* destination after a read, the source of an accepted write; for clear, the
\* readable bytes it threw away) and the value a typed read returned
Call(op, ptr, n, ok, out, val) ==
    [op |-> op, ptr |-> ptr, size |-> n, ok |-> ok, out |-> out, val |-> val]

NoCall == Call("none", FALSE, 0, FALSE, NoBytes, 0)

NoTxn == [phase |-> 0, head |-> 0, tail |-> 0, wrtn |-> 0, flag |-> FALSE,
          readable |-> NoBytes, expect |-> NoBytes, expectOk |-> FALSE]

\* a HeapBuffer by value: its fields, and in buf the bytes buf points to
HeapBuffer(c, h, t, w, flag, bytes) ==
    [size |-> c, head |-> h, tail |-> t, wrtn |-> w,
     invalidateCommit |-> flag, buf |-> bytes]

\* no HeapBuffer beside the engine's own
NoBuffer == HeapBuffer(0, 0, 0, 0, FALSE, NoBytes)

\* a thread between two calls: pc, the size and bytes of the call in hand
\* and the number of bytes copied so far
IdleThread == [pc |-> "idle", n |-> 0, data |-> NoBytes, i |-> 0]

\* a thread that calls tryWrite once: its pc, the size and bytes it writes,
\* the bytes copied so far, its local copy of wrtn and what the call returned
IdleWriter == [pc |-> "idle", n |-> 0, data |-> NoBytes, i |-> 0, w |-> 0, ok |-> FALSE]

NoWriters == [t \in {1, 2} |-> IdleWriter]

\* the producer's caller between two groups: st is "idle" or "trying", items
\* are the sizes of the group's writes, k counts the writes issued in the
\* attempt under way, retried says an attempt of this group was rolled back
NoGroup == [st |-> "idle", items |-> <<>>, k |-> 0, retried |-> FALSE]

\* the ghost queues never hold more bytes than the storage has
Keep(s) == IF Len(s) <= size THEN s ELSE SubSeq(s, 1, size)

\* the value of a scalar whose bytes memcpy laid out (little-endian host,
\* two's complement): the top byte carries the sign
RECURSIVE Unsigned(_)
Unsigned(bytes) ==
    IF bytes = <<>> THEN 0 ELSE Head(bytes) + 256 * Unsigned(Tail(bytes))

Decode(bytes) ==
    LET w   == Len(bytes)
        top == bytes[w]
        low == Unsigned(SubSeq(bytes, 1, w - 1))
        hi  == IF top >= 128 THEN top - 256 ELSE top
    IN  low + hi * (256 ^ (w - 1))

\* the bytes memcpy reads out of a scalar of w bytes (w <= 4) holding v
Encode(v, w) == [i \in 1..w |-> (v \div (256 ^ (i - 1))) % 256]

\* a 64-bit scalar, kept as two 32-bit words: hi with the sign, lo as the
\* signed reading of the low word's bits
Long(hi, lo) == [hi |-> hi, lo |-> lo]

DecodeLong(bytes) == Long(Decode(SubSeq(bytes, 5, 8)), Decode(SubSeq(bytes, 1, 4)))

EncodeLong(v) == Encode(v.lo, 4) \o Encode(v.hi, 4)

\* a <= b for two 32-bit words read as unsigned
WordLeq(a, b) == IF (a >= 0) = (b >= 0) THEN a <= b ELSE a >= 0

\* a <= b for two 64-bit scalars
LongLeq(a, b) == a.hi < b.hi \/ (a.hi = b.hi /\ WordLeq(a.lo, b.lo))

INT_LEAST8_MAX == 127
INT_LEAST16_MAX == 32767
INT_LEAST32_MAX == 2147483647
INT_LEAST64_MAX == Long(INT_LEAST32_MAX, -1)

\* the scalar of sizeof = Len(bytes) that the bytes lay out
Signed(bytes) == IF Len(bytes) = 8 THEN DecodeLong(bytes) ELSE Decode(bytes)

\* the literal 0 as a scalar of w bytes
Zero(w) == IF w = 8 THEN Long(0, 0) ELSE 0

\* the bytes of a local of w bytes initialised to -1
MinusOne(w) == [i \in 1..w |-> 255]

\* v >= 0 for a scalar of w bytes
NonNegative(v, w) == IF w = 8 THEN v.hi >= 0 ELSE v >= 0

\* v <= INT_LEASTn_MAX for a scalar of w bytes, n = 8 w
AtMostLeastMax(v, w) ==
    IF w = 8 THEN LongLeq(v, INT_LEAST64_MAX)
    ELSE IF w = 4 THEN v <= INT_LEAST32_MAX
    ELSE IF w = 2 THEN v <= INT_LEAST16_MAX
    ELSE v <= INT_LEAST8_MAX

\* the values the typed writers are given: every byte alike, or a lone 1
Scalars(w) == {Decode([i \in 1..w |-> x]) : x \in Byte} \cup {1}

\* ------------------------------------------------- the engine's primitives

\* the argument checks with size <= fBuffer->size in place of size < fBuffer->size
ArgsOk_atMostSize(nonnull, n) == nonnull /\ n > 0 /\ n <= size

\* the argument checks of tryRead and tryWrite: buf != nullptr, size > 0,
\* size < fBuffer->size
ArgsOk(nonnull, n) == nonnull /\ n > 0 /\ n < size

\* the free space measured to head, the committed boundary, not to tail
WriteSpace_toHead(t, w) == (IF head > w THEN 0 ELSE size) + head - w

\* the free space counted one byte short
WriteSpace_oneLess(t, w) == (IF t > w THEN 0 ELSE size) + t - w - 1

\* tryWrite: wrap + tail - wrtn, the free space from wrtn forward to tail
WriteSpace(t, w) == (IF t > w THEN 0 ELSE size) + t - w

\* the test with size > wrap + tail - wrtn: a write may fill the free space
WriteRefused_fills(n, space) == space >= 0 /\ n > space

\* tryWrite: the test size >= wrap + tail - wrtn that refuses the write
WriteRefused(n, space) == space >= 0 /\ n >= space

\* tryRead: wrap + head - tail, the bytes from tail forward to head
ReadAvail(h, t) == (IF h > t THEN 0 ELSE size) + h - t

\* the test with size >= wrap + head - tail: the last available byte stays
ReadRefused_keepsOne(n, avail) == avail >= 0 /\ n >= avail

\* tryRead: the test size > wrap + head - tail that refuses the read
ReadRefused(n, avail) == avail >= 0 /\ n > avail

\* the cursor without the collapse of fBuffer->size to 0
NextCursor_noCollapse(c, n) ==
    LET to == c + n IN IF to > size THEN to - size ELSE to

\* the cursor size bytes after c: writeto / readto, less fBuffer->size when
\* the copy crossed the end of the storage, 0 when it ended exactly there
NextCursor(c, n) ==
    LET to == c + n IN
    IF to > size THEN to - size ELSE IF to = size THEN 0 ELSE to

\* a copy that crosses the end from a cursor beyond it: firstpart, size - c,
\* wraps to a count no storage holds
Overruns(c, n) == c + n > size /\ size - c < 0

\* tryWrite: the one or two memcpy that store data at w
CopyIn(b, w, data) ==
    LET n       == Len(data)
        writeto == w + n
    IN  IF writeto > size
        THEN LET firstpart == size - w IN
             Memcpy(Memcpy(b, w, data, 0, firstpart), 0, data, firstpart, writeto - size)
        ELSE Memcpy(b, w, data, 0, n)

\* the second memcpy fetching from fBuffer->buf + 1
CopyOut_shifted(b, t, n) ==
    LET readto == t + n IN
    IF readto > size
    THEN LET firstpart == size - t IN
         [i \in 1..n |-> IF i <= firstpart THEN b[t + i - 1] ELSE b[i - firstpart]]
    ELSE [i \in 1..n |-> b[t + i - 1]]

\* tryRead: the one or two memcpy that fetch n bytes at t
CopyOut(b, t, n) ==
    LET readto == t + n IN
    IF readto > size
    THEN LET firstpart == size - t IN
         [i \in 1..n |-> IF i <= firstpart THEN b[t + i - 1] ELSE b[i - firstpart - 1]]
    ELSE [i \in 1..n |-> b[t + i - 1]]

\* CarlaRingBuffer::tryWrite(buf, size): nonnull says buf != nullptr, data are
\* the size bytes at buf.  The result: what it returns, the fields it stores
\* and whether a copy ran off the storage.  size_t differences are kept as
\* integers: a negative one stands for the wrapped value, above every size.
tryWrite(nonnull, data) ==
    LET n    == Len(data)
        same == [ok |-> FALSE, wrtn |-> wrtn, invalidateCommit |-> invalidateCommit,
                 buf |-> buf, fault |-> FALSE]
    IN  IF fBuffer = "null" \/ ~ArgsOk(nonnull, n)
        THEN same
        ELSE IF WriteRefused(n, WriteSpace(tail, wrtn))
        THEN [same EXCEPT !.invalidateCommit = TRUE]
        ELSE IF Overruns(wrtn, n)
        THEN [same EXCEPT !.fault = TRUE]
        ELSE [same EXCEPT !.ok = TRUE,
                          !.buf = CopyIn(buf, wrtn, data),
                          !.wrtn = NextCursor(wrtn, n)]

\* CarlaRingBuffer::tryRead(buf, size): out are the bytes copied to buf
tryRead(nonnull, n) ==
    LET same == [ok |-> FALSE, tail |-> tail, out |-> NoBytes, fault |-> FALSE]
    IN  IF fBuffer = "null" \/ ~ArgsOk(nonnull, n)
        THEN same
        ELSE IF head = tail
        THEN same
        ELSE IF ReadRefused(n, ReadAvail(head, tail))
        THEN same
        ELSE IF Overruns(tail, n)
        THEN [same EXCEPT !.fault = TRUE]
        ELSE [same EXCEPT !.ok = TRUE,
                          !.out = CopyOut(buf, tail, n),
                          !.tail = NextCursor(tail, n)]

\* commitWrite whose rollback clears the flag and leaves wrtn where it is
commitWrite_keepsWrtn ==
    IF fBuffer = "null"
    THEN [ok |-> FALSE, head |-> head, wrtn |-> wrtn, invalidateCommit |-> invalidateCommit]
    ELSE IF invalidateCommit
    THEN [ok |-> FALSE, head |-> head, wrtn |-> wrtn, invalidateCommit |-> FALSE]
    ELSE IF ~(head # wrtn)
    THEN [ok |-> FALSE, head |-> head, wrtn |-> wrtn, invalidateCommit |-> invalidateCommit]
    ELSE [ok |-> TRUE, head |-> wrtn, wrtn |-> wrtn, invalidateCommit |-> invalidateCommit]

\* commitWrite that publishes one byte short of wrtn
commitWrite_shortPublish ==
    IF fBuffer = "null"
    THEN [ok |-> FALSE, head |-> head, wrtn |-> wrtn, invalidateCommit |-> invalidateCommit]
    ELSE IF invalidateCommit
    THEN [ok |-> FALSE, head |-> head, wrtn |-> head, invalidateCommit |-> FALSE]
    ELSE IF ~(head # wrtn)
    THEN [ok |-> FALSE, head |-> head, wrtn |-> wrtn, invalidateCommit |-> invalidateCommit]
    ELSE [ok |-> TRUE, head |-> (wrtn + size - 1) % size, wrtn |-> wrtn,
          invalidateCommit |-> invalidateCommit]

\* commitWrite whose rollback leaves the flag set
commitWrite_keepsFlag ==
    IF fBuffer = "null"
    THEN [ok |-> FALSE, head |-> head, wrtn |-> wrtn, invalidateCommit |-> invalidateCommit]
    ELSE IF invalidateCommit
    THEN [ok |-> FALSE, head |-> head, wrtn |-> head, invalidateCommit |-> invalidateCommit]
    ELSE IF ~(head # wrtn)
    THEN [ok |-> FALSE, head |-> head, wrtn |-> wrtn, invalidateCommit |-> invalidateCommit]
    ELSE [ok |-> TRUE, head |-> wrtn, wrtn |-> wrtn, invalidateCommit |-> invalidateCommit]

\* commitWrite whose rollback sets wrtn to tail
commitWrite_rollsToTail ==
    IF fBuffer = "null"
    THEN [ok |-> FALSE, head |-> head, wrtn |-> wrtn, invalidateCommit |-> invalidateCommit]
    ELSE IF invalidateCommit
    THEN [ok |-> FALSE, head |-> head, wrtn |-> tail, invalidateCommit |-> FALSE]
    ELSE IF ~(head # wrtn)
    THEN [ok |-> FALSE, head |-> head, wrtn |-> wrtn, invalidateCommit |-> invalidateCommit]
    ELSE [ok |-> TRUE, head |-> wrtn, wrtn |-> wrtn, invalidateCommit |-> invalidateCommit]

\* CarlaRingBuffer::commitWrite(): what it returns and the cursors it stores
commitWrite ==
    IF fBuffer = "null"
    THEN [ok |-> FALSE, head |-> head, wrtn |-> wrtn, invalidateCommit |-> invalidateCommit]
    ELSE IF invalidateCommit
    THEN [ok |-> FALSE, head |-> head, wrtn |-> head, invalidateCommit |-> FALSE]
    ELSE IF ~(head # wrtn)
    THEN [ok |-> FALSE, head |-> head, wrtn |-> wrtn, invalidateCommit |-> invalidateCommit]
    ELSE [ok |-> TRUE, head |-> wrtn, wrtn |-> wrtn, invalidateCommit |-> invalidateCommit]

\* isDataAvailableForReading() without the test of fBuffer
isDataAvailableForReading_unchecked == head # tail

\* CarlaRingBuffer::isDataAvailableForReading()
isDataAvailableForReading == IF fBuffer = "null" THEN FALSE ELSE head # tail

\* CarlaRingBuffer::isEmpty()
isEmpty == IF fBuffer = "null" THEN FALSE ELSE head = tail

\* CarlaRingBuffer::setRingBuffer(ringBuf, reset): the binding afterwards and
\* whether clear() runs; nothing happens when ringBuf is already bound
setRingBuffer(ringBuf, reset) ==
    IF ~(ringBuf # fBuffer)
    THEN [fBuffer |-> fBuffer, clear |-> FALSE]
    ELSE [fBuffer |-> ringBuf, clear |-> reset /\ ringBuf # "null"]

\* ------------------------------------------------------- ghost bookkeeping

\* a write with valid arguments on a bound buffer that was refused for space
SpaceFailure(nonnull, n, r) ==
    fBuffer # "null" /\ ArgsOk(nonnull, n) /\ ~r.ok /\ ~r.fault

WriteGhost(nonnull, data, r) ==
    IF ~tracked THEN UNCHANGED ghostVars ELSE
    /\ tracked' = tracked
    /\ pending' = IF r.ok THEN Keep(pending \o data) ELSE pending
    /\ committed' = committed
    /\ groupFailed' = (groupFailed \/ (~r.ok /\ ~r.fault))
    /\ txn' = IF r.ok /\ wrtn = head /\ ~invalidateCommit
              THEN [NoTxn EXCEPT !.phase = 1, !.head = head, !.tail = tail,
                                 !.wrtn = wrtn, !.flag = invalidateCommit,
                                 !.readable = Readable]
              ELSE IF txn.phase = 1 /\ SpaceFailure(nonnull, Len(data), r)
              THEN [txn EXCEPT !.phase = 2]
              ELSE NoTxn

CommitGhost(r) ==
    IF ~tracked THEN UNCHANGED ghostVars ELSE
    /\ tracked' = tracked
    /\ pending' = NoBytes
    /\ committed' = IF r.ok THEN Keep(committed \o pending) ELSE committed
    /\ groupFailed' = FALSE
    /\ txn' = IF txn.phase = 2 THEN [txn EXCEPT !.phase = 3] ELSE NoTxn

ReadGhost(nonnull, n, r) ==
    IF ~tracked THEN UNCHANGED ghostVars ELSE
    /\ tracked' = tracked
    /\ pending' = pending
    /\ committed' = IF r.ok THEN SubSeq(committed, n + 1, Len(committed))
                    ELSE committed
    /\ groupFailed' = groupFailed
    /\ txn' = IF txn.phase = 3 /\ ~r.fault
              THEN LET can == ArgsOk(nonnull, n) /\ n <= Len(txn.readable) IN
                   [txn EXCEPT !.phase = 4, !.expectOk = can,
                               !.expect = IF can THEN SubSeq(txn.readable, 1, n)
                                          ELSE NoBytes]
              ELSE NoTxn

\* the history starts afresh; it is followed while the storage is known
ResetGhost(known) ==
    /\ tracked' = known
    /\ pending' = NoBytes
    /\ committed' = NoBytes
    /\ groupFailed' = FALSE
    /\ txn' = NoTxn

\* ------------------------------------------------------ the public calls

\* a write call: tryWrite and nothing else
Write(nonnull, data) ==
    LET r == tryWrite(nonnull, data) IN
    /\ ~fault
    /\ fault' = r.fault
    /\ wrtn' = r.wrtn
    /\ invalidateCommit' = r.invalidateCommit
    /\ buf' = r.buf
    /\ UNCHANGED <<fBuffer, size, head, tail, bufPtr>>
    /\ last' = Call(IF r.fault THEN "fault" ELSE "write", nonnull, Len(data), r.ok,
                     IF r.ok THEN data ELSE NoBytes, 0)
    /\ WriteGhost(nonnull, data, r)
    /\ UNCHANGED <<thrVars, heapVars>>

\* CarlaRingBuffer::writeCustomData(value, size)
writeCustomData(nonnull, data) == Write(nonnull, data)

\* CarlaRingBuffer::writeByte(value)
writeByte(v) == Write(TRUE, Encode(v, 1))

\* CarlaRingBuffer::writeShort(value)
writeShort(v) == Write(TRUE, Encode(v, 2))

\* CarlaRingBuffer::writeInt(value)
writeInt(v) == Write(TRUE, Encode(v, 4))

\* a read call: tryRead, then the destination and the value returned.  A
\* failed read leaves zeros in the destination: readCustomData zero-fills it
\* (a null one is left alone), a typed reader's local was initialised to 0
Read(nonnull, n, scalar) ==
    LET r    == tryRead(nonnull, n)
        dest == IF r.ok THEN r.out
                ELSE IF nonnull THEN ZeroBytes(n) ELSE NoBytes
        val  == IF scalar /\ r.ok THEN Decode(r.out) ELSE 0
    IN
    /\ ~fault
    /\ fault' = r.fault
    /\ tail' = r.tail
    /\ UNCHANGED <<fBuffer, size, head, wrtn, invalidateCommit, bufPtr, buf>>
    /\ last' = Call(IF r.fault THEN "fault" ELSE "read", nonnull, n, r.ok, dest, val)
    /\ ReadGhost(nonnull, n, r)
    /\ UNCHANGED <<thrVars, heapVars>>

\* CarlaRingBuffer::readCustomData(data, size)
readCustomData(nonnull, n) == Read(nonnull, n, FALSE)

\* readByte, readShort, readInt: tryRead(&local, w) ? local : 0
ReadScalar(w) == Read(TRUE, w, TRUE)

\* CarlaRingBuffer::readByte()
readByte == ReadScalar(1)

\* CarlaRingBuffer::readShort()
readShort == ReadScalar(2)

\* CarlaRingBuffer::readInt()
readInt == ReadScalar(4)

\* CarlaRingBuffer::writeLong(value)
writeLong(v) == Write(TRUE, EncodeLong(v))

\* an unsigned reader that leaves the range test out
ReadUnsigned_unchecked(w) ==
    LET r     == tryRead(TRUE, w)
        local == IF r.ok THEN r.out ELSE MinusOne(w)
        v     == Signed(local)
        val   == IF r.ok THEN v ELSE Zero(w)
    IN
    /\ ~fault
    /\ fault' = r.fault
    /\ tail' = r.tail
    /\ UNCHANGED <<fBuffer, size, head, wrtn, invalidateCommit, bufPtr, buf>>
    /\ last' = Call(IF r.fault THEN "fault" ELSE "uread", TRUE, w, r.ok, local, val)
    /\ ReadGhost(TRUE, w, r)
    /\ UNCHANGED <<thrVars, heapVars>>

\* an unsigned reader that leaves a value it turns down in the buffer
ReadUnsigned_putsBack(w) ==
    LET r     == tryRead(TRUE, w)
        local == IF r.ok THEN r.out ELSE MinusOne(w)
        v     == Signed(local)
        fine  == r.ok /\ NonNegative(v, w) /\ AtMostLeastMax(v, w)
        val   == IF fine THEN v ELSE Zero(w)
    IN
    /\ ~fault
    /\ fault' = r.fault
    /\ tail' = IF fine THEN r.tail ELSE tail
    /\ UNCHANGED <<fBuffer, size, head, wrtn, invalidateCommit, bufPtr, buf>>
    /\ last' = Call(IF r.fault THEN "fault" ELSE "uread", TRUE, w, r.ok, local, val)
    /\ ReadGhost(TRUE, w, [r EXCEPT !.ok = fine])
    /\ UNCHANGED <<thrVars, heapVars>>

\* readUByte, readUShort, readUInt, readULong: a signed local of w bytes set
\* to -1, then (tryRead(&local, w) && local >= 0 && local <= INT_LEASTn_MAX)
\* ? static_cast<unsigned>(local) : 0
ReadUnsigned(w) ==
    LET r     == tryRead(TRUE, w)
        local == IF r.ok THEN r.out ELSE MinusOne(w)
        v     == Signed(local)
        val   == IF r.ok /\ NonNegative(v, w) /\ AtMostLeastMax(v, w)
                 THEN v ELSE Zero(w)
    IN
    /\ ~fault
    /\ fault' = r.fault
    /\ tail' = r.tail
    /\ UNCHANGED <<fBuffer, size, head, wrtn, invalidateCommit, bufPtr, buf>>
    /\ last' = Call(IF r.fault THEN "fault" ELSE "uread", TRUE, w, r.ok, local, val)
    /\ ReadGhost(TRUE, w, r)
    /\ UNCHANGED <<thrVars, heapVars>>

\* CarlaRingBuffer::readUByte()
readUByte == ReadUnsigned(1)

\* CarlaRingBuffer::readUShort()
readUShort == ReadUnsigned(2)

\* CarlaRingBuffer::readUInt()
readUInt == ReadUnsigned(4)

\* CarlaRingBuffer::readULong()
readULong == ReadUnsigned(8)

\* CarlaRingBuffer::commitWrite()
CommitWrite ==
    LET r == commitWrite IN
    /\ ~fault
    /\ head' = r.head
    /\ wrtn' = r.wrtn
    /\ invalidateCommit' = r.invalidateCommit
    /\ UNCHANGED <<fBuffer, size, tail, bufPtr, buf, fault>>
    /\ last' = Call("commit", FALSE, 0, r.ok, NoBytes, 0)
    /\ CommitGhost(r)
    /\ UNCHANGED <<thrVars, heapVars>>

\* clear() that leaves wrtn where it is
clear_keepsWrtn ==
    /\ ~fault
    /\ IF fBuffer = "null"
       THEN UNCHANGED <<head, tail, wrtn, invalidateCommit, buf>>
       ELSE /\ head' = 0
            /\ tail' = 0
            /\ wrtn' = wrtn
            /\ invalidateCommit' = FALSE
            /\ buf' = ZeroBuf(size)
    /\ UNCHANGED <<fBuffer, size, bufPtr, fault>>
    /\ last' = Call("clear", FALSE, 0, fBuffer # "null",
                     IF fBuffer # "null" THEN Readable ELSE NoBytes, 0)
    /\ ResetGhost(fBuffer # "null")
    /\ UNCHANGED <<thrVars, heapVars>>

\* CarlaRingBuffer::clear()
clear ==
    /\ ~fault
    /\ IF fBuffer = "null"
       THEN UNCHANGED <<head, tail, wrtn, invalidateCommit, buf>>
       ELSE /\ head' = 0
            /\ tail' = 0
            /\ wrtn' = 0
            /\ invalidateCommit' = FALSE
            /\ buf' = ZeroBuf(size)
    /\ UNCHANGED <<fBuffer, size, bufPtr, fault>>
    /\ last' = Call("clear", FALSE, 0, fBuffer # "null",
                     IF fBuffer # "null" THEN Readable ELSE NoBytes, 0)
    /\ ResetGhost(fBuffer # "null")
    /\ UNCHANGED <<thrVars, heapVars>>

\* CarlaHeapRingBuffer::createBuffer(size): new uint8_t[] is uninitialised,
\* and only a buffer that setRingBuffer newly binds is cleared; the address
\* fHeapBuffer.buf held is overwritten without a delete[]
createBuffer(n) ==
    /\ ~fault
    /\ IF ~(n > 0)
       THEN UNCHANGED <<bufVars, ghostVars>>
       ELSE LET s == setRingBuffer("heap", TRUE) IN
            /\ size' = carla_nextPowerOf2(n)
            /\ bufPtr' = "live"
            /\ fBuffer' = s.fBuffer
            /\ fault' = fault
            /\ IF s.clear
               THEN /\ head' = 0
                    /\ tail' = 0
                    /\ wrtn' = 0
                    /\ invalidateCommit' = FALSE
                    /\ buf' = ZeroBuf(size')
                    /\ ResetGhost(TRUE)
               ELSE /\ UNCHANGED <<head, tail, wrtn, invalidateCommit>>
                    /\ buf' \in [0..(size' - 1) -> Byte]
                    /\ ResetGhost(FALSE)
    /\ last' = Call("create", FALSE, n, n > 0, NoBytes, 0)
    /\ leaked' = (leaked \/ (n > 0 /\ bufPtr = "live"))
    /\ UNCHANGED <<thrVars, rb>>

\* CarlaHeapRingBuffer::deleteBuffer(): delete[] of a pointer that was never
\* set either ends the process or returns
deleteBuffer ==
    /\ ~fault
    /\ IF bufPtr = "null"
       THEN UNCHANGED <<bufVars, ghostVars>>
       ELSE LET s == setRingBuffer("null", FALSE) IN
            /\ ResetGhost(FALSE)
            /\ fBuffer' = s.fBuffer
            /\ bufPtr' = "null"
            /\ size' = 0
            /\ buf' = NoBytes
            /\ fault' \in (IF bufPtr = "wild" THEN BOOLEAN ELSE {FALSE})
            /\ UNCHANGED <<head, tail, wrtn, invalidateCommit>>
    /\ last' = Call("delete", FALSE, 0, bufPtr # "null", NoBytes, 0)
    /\ UNCHANGED <<thrVars, heapVars>>

\* CarlaHeapRingBuffer::~CarlaHeapRingBuffer(): delete[] of fHeapBuffer.buf
\* unless it is null; a pointer that was never set either ends the process
\* or returns.  No call follows the destructor
destroy ==
    /\ ~fault
    /\ IF bufPtr = "null"
       THEN UNCHANGED <<bufPtr, fault>>
       ELSE /\ bufPtr' = "null"
            /\ fault' \in (IF bufPtr = "wild" THEN BOOLEAN ELSE {FALSE})
    /\ UNCHANGED <<fBuffer, size, head, tail, wrtn, invalidateCommit, buf>>
    /\ last' = Call("destroy", FALSE, 0, bufPtr # "null", NoBytes, 0)
    /\ UNCHANGED <<ghostVars, thrVars, heapVars>>

\* copyDataFrom that leaves invalidateCommit out
copyDataFrom_noFlag ==
    /\ ~fault
    /\ IF ~(size = rb.size)
       THEN UNCHANGED <<size, head, tail, wrtn, invalidateCommit, buf>>
       ELSE /\ size' = rb.size
            /\ head' = rb.head
            /\ tail' = rb.tail
            /\ wrtn' = rb.wrtn
            /\ invalidateCommit' = invalidateCommit
            /\ buf' = Memcpy(buf, 0, Region(rb.buf, 0, size, size), 0, size)
    /\ UNCHANGED <<fBuffer, bufPtr, fault>>
    /\ last' = Call("copy", TRUE, rb.size, size = rb.size, NoBytes, 0)
    /\ ResetGhost(FALSE)
    /\ UNCHANGED <<thrVars, heapVars>>

\* HeapBuffer::copyDataFrom(rb), called on the HeapBuffer of the state
\* variables with the HeapBuffer rb (a const reference to another object)
copyDataFrom ==
    /\ ~fault
    /\ IF ~(size = rb.size)
       THEN UNCHANGED <<size, head, tail, wrtn, invalidateCommit, buf>>
       ELSE /\ size' = rb.size
            /\ head' = rb.head
            /\ tail' = rb.tail
            /\ wrtn' = rb.wrtn
            /\ invalidateCommit' = rb.invalidateCommit
            /\ buf' = Memcpy(buf, 0, Region(rb.buf, 0, size, size), 0, size)
    /\ UNCHANGED <<fBuffer, bufPtr, fault>>
    /\ last' = Call("copy", TRUE, rb.size, size = rb.size, NoBytes, 0)
    /\ ResetGhost(FALSE)
    /\ UNCHANGED <<thrVars, heapVars>>

\* ---------------------------------------------------------- specifications

Capacities == {carla_nextPowerOf2(n) : n \in 1..MaxSize}

\* values an uninitialised field of fHeapBuffer may hold
Indeterminate == {0, MaxSize}

\* CarlaHeapRingBuffer(): fBuffer(nullptr); fHeapBuffer is not initialised
Init ==
    /\ fBuffer = "null"
    /\ size \in Indeterminate
    /\ head \in Indeterminate
    /\ tail \in Indeterminate
    /\ wrtn \in Indeterminate
    /\ invalidateCommit \in BOOLEAN
    /\ bufPtr \in {"null", "wild"}
    /\ buf = NoBytes
    /\ fault = FALSE
    /\ last = NoCall
    /\ pending = NoBytes
    /\ committed = NoBytes
    /\ groupFailed = FALSE
    /\ txn = NoTxn
    /\ tracked = FALSE
    /\ prod = IdleThread
    /\ cons = IdleThread
    /\ writers = NoWriters
    /\ group = NoGroup
    /\ rb = NoBuffer
    /\ leaked = FALSE

\* the producer's side of the interface, less commitWrite
WriteCall ==
    \/ \E data \in BytesUpTo(MaxLen) : writeCustomData(TRUE, data)
    \/ \E n \in 0..MaxLen : writeCustomData(FALSE, ZeroBytes(n))
    \/ \E v \in Scalars(1) : writeByte(v)
    \/ \E v \in Scalars(2) : writeShort(v)
    \/ \E v \in Scalars(4) : writeInt(v)

OtherCall ==
    \/ clear
    \/ CommitWrite
    \/ \E nonnull \in BOOLEAN, n \in 0..MaxLen : readCustomData(nonnull, n)
    \/ readByte
    \/ readShort
    \/ readInt

EngineCall == WriteCall \/ OtherCall

Next ==
    \/ EngineCall
    \/ \E n \in 0..MaxSize : createBuffer(n)
    \/ deleteBuffer

Spec == Init /\ [][Next]_vars

\* the engine bound to a buffer of capacity c and cleared: a heap ring buffer
\* after its first createBuffer, a stack ring buffer after construction
EngineInit ==
    /\ fBuffer = "heap"
    /\ size \in Capacities
    /\ head = 0
    /\ tail = 0
    /\ wrtn = 0
    /\ invalidateCommit = FALSE
    /\ bufPtr = "live"
    /\ buf = ZeroBuf(size)
    /\ fault = FALSE
    /\ last = NoCall
    /\ pending = NoBytes
    /\ committed = NoBytes
    /\ groupFailed = FALSE
    /\ txn = NoTxn
    /\ tracked = TRUE
    /\ prod = IdleThread
    /\ cons = IdleThread
    /\ writers = NoWriters
    /\ group = NoGroup
    /\ rb = NoBuffer
    /\ leaked = FALSE

EngineNext == EngineCall

SpecEngine == EngineInit /\ [][EngineNext]_vars

\* CarlaStackRingBuffer(): CarlaRingBuffer<StackBuffer>(&fStackBuffer), whose
\* constructor binds the buffer and runs clear() on it
StackInit ==
    /\ fBuffer = "stack"
    /\ size = StackBufferSize
    /\ head = 0
    /\ tail = 0
    /\ wrtn = 0
    /\ invalidateCommit = FALSE
    /\ bufPtr = "live"
    /\ buf = ZeroBuf(size)
    /\ fault = FALSE
    /\ last = NoCall
    /\ pending = NoBytes
    /\ committed = NoBytes
    /\ groupFailed = FALSE
    /\ txn = NoTxn
    /\ tracked = TRUE
    /\ prod = IdleThread
    /\ cons = IdleThread
    /\ writers = NoWriters
    /\ group = NoGroup
    /\ rb = NoBuffer
    /\ leaked = FALSE

\* the stack ring buffer is followed over the first bytes of its storage
StackWrite ==
    /\ fBuffer = "stack"
    /\ wrtn < MaxStackCursor
    /\ \E data \in BytesUpTo(MaxStackLen) : writeCustomData(TRUE, data)

\* either ring buffer class: a heap ring buffer after its first createBuffer
\* or a stack ring buffer after construction
BuffersInit == EngineInit \/ StackInit

BuffersNext ==
    \/ fBuffer # "stack" /\ WriteCall
    \/ StackWrite
    \/ OtherCall

SpecBuffers == BuffersInit /\ [][BuffersNext]_vars

\* the heap ring buffer from construction to destruction: createBuffer and
\* deleteBuffer in any order, reads, writes and commits of one byte between
\* them, and the destructor last
Alive == last.op # "destroy"

HeapNext ==
    \/ Alive /\ \E n \in 0..MaxSize : createBuffer(n)
    \/ Alive /\ deleteBuffer
    \/ Alive /\ destroy
    \/ Alive /\ \E v \in Scalars(1) : writeByte(v)
    \/ Alive /\ readByte
    \/ Alive /\ CommitWrite

SpecHeap == Init /\ [][HeapNext]_vars

\* the values the typed writers are given where the sign matters: 0, 1,
\* the largest, -1 and the smallest of the width
SignValues(w) ==
    IF w = 4 THEN {0, 1, INT_LEAST32_MAX, -1, -INT_LEAST32_MAX - 1}
    ELSE IF w = 2 THEN {0, 1, INT_LEAST16_MAX, -1, -INT_LEAST16_MAX - 1}
    ELSE {0, 1, INT_LEAST8_MAX, -1, -INT_LEAST8_MAX - 1}

SignLongs ==
    {Long(0, 0), Long(0, 1), Long(0, -1), INT_LEAST64_MAX, Long(-1, -1),
     Long(-INT_LEAST32_MAX - 1, 0)}

\* a heap ring buffer after createBuffer(ScalarSize)
ScalarInit ==
    /\ fBuffer = "heap"
    /\ size = carla_nextPowerOf2(ScalarSize)
    /\ head = 0
    /\ tail = 0
    /\ wrtn = 0
    /\ invalidateCommit = FALSE
    /\ bufPtr = "live"
    /\ buf = ZeroBuf(size)
    /\ fault = FALSE
    /\ last = NoCall
    /\ pending = NoBytes
    /\ committed = NoBytes
    /\ groupFailed = FALSE
    /\ txn = NoTxn
    /\ tracked = TRUE
    /\ prod = IdleThread
    /\ cons = IdleThread
    /\ writers = NoWriters
    /\ group = NoGroup
    /\ rb = NoBuffer
    /\ leaked = FALSE

TypedWrite ==
    \/ \E v \in SignValues(1) : writeByte(v)
    \/ \E v \in SignValues(2) : writeShort(v)
    \/ \E v \in SignValues(4) : writeInt(v)
    \/ \E v \in SignLongs : writeLong(v)

ScalarNext ==
    \/ wrtn < MaxScalarCursor /\ TypedWrite
    \/ CommitWrite
    \/ clear
    \/ readUByte
    \/ readUShort
    \/ readUInt
    \/ readULong

SpecScalars == ScalarInit /\ [][ScalarNext]_vars

\* every HeapBuffer of capacity 1..MaxCopySize with its cursors inside
HeapBuffers ==
    UNION {[size : {c}, head : 0..(c - 1), tail : 0..(c - 1), wrtn : 0..(c - 1),
            invalidateCommit : BOOLEAN, buf : [0..(c - 1) -> Byte]]
           : c \in 1..MaxCopySize}

\* two HeapBuffer objects, the one in the state variables and rb, no engine
\* bound to either
CopyInit ==
    /\ fBuffer = "null"
    /\ \E dst \in HeapBuffers :
         /\ size = dst.size
         /\ head = dst.head
         /\ tail = dst.tail
         /\ wrtn = dst.wrtn
         /\ invalidateCommit = dst.invalidateCommit
         /\ buf = dst.buf
    /\ bufPtr = "live"
    /\ fault = FALSE
    /\ last = NoCall
    /\ pending = NoBytes
    /\ committed = NoBytes
    /\ groupFailed = FALSE
    /\ txn = NoTxn
    /\ tracked = FALSE
    /\ prod = IdleThread
    /\ cons = IdleThread
    /\ writers = NoWriters
    /\ group = NoGroup
    /\ rb \in HeapBuffers
    /\ leaked = FALSE

CopyNext == copyDataFrom

SpecCopy == CopyInit /\ [][CopyNext]_vars

\* ------------------------------------------- producer and consumer threads
\* Each step below holds one load or store of a field the other thread also
\* uses (tail, head, a storage byte), with the thread's own computation
\* around it.  wrtn and invalidateCommit are the producer's alone.

\* the storage index of byte i of a copy that starts at cursor c
\* (the first memcpy up to the end of the storage, the second from index 0)
BytePos(c, i) == IF c + i < size THEN c + i ELSE c + i - size

\* the producer calls tryWrite: the argument checks, the load of tail and
\* the space test; a refused write sets invalidateCommit
P_tryWrite(data) ==
    /\ prod.pc = "idle"
    /\ IF ~ArgsOk(TRUE, Len(data))
       THEN UNCHANGED <<prod, invalidateCommit>>
       ELSE IF WriteRefused(Len(data), WriteSpace(tail, wrtn))
       THEN invalidateCommit' = TRUE /\ UNCHANGED prod
       ELSE /\ prod' = [pc |-> "copy", n |-> Len(data), data |-> data, i |-> 0]
            /\ UNCHANGED invalidateCommit
    /\ last' = NoCall
    /\ UNCHANGED <<fBuffer, size, head, tail, wrtn, bufPtr, buf, fault>>
    /\ UNCHANGED <<ghostVars, cons, writers, heapVars>>

\* memcpy stores the next byte of the data
P_copy ==
    /\ prod.pc = "copy"
    /\ buf' = [buf EXCEPT ![BytePos(wrtn, prod.i)] = prod.data[prod.i + 1]]
    /\ prod' = [prod EXCEPT !.i = prod.i + 1,
                            !.pc = IF prod.i + 1 = prod.n THEN "store" ELSE "copy"]
    /\ last' = NoCall
    /\ UNCHANGED <<fBuffer, size, head, tail, wrtn, invalidateCommit, bufPtr, fault>>
    /\ UNCHANGED <<ghostVars, cons, writers, heapVars>>

\* fBuffer->wrtn = writeto; tryWrite returns true
P_store ==
    /\ prod.pc = "store"
    /\ wrtn' = NextCursor(wrtn, prod.n)
    /\ prod' = IdleThread
    /\ pending' = Keep(pending \o prod.data)
    /\ last' = NoCall
    /\ UNCHANGED <<fBuffer, size, head, tail, invalidateCommit, bufPtr, buf, fault>>
    /\ UNCHANGED <<committed, groupFailed, txn, tracked, cons, writers, heapVars>>

\* the producer calls commitWrite: its one store the consumer sees is head
P_commitWrite ==
    LET r == commitWrite IN
    /\ prod.pc = "idle"
    /\ head' = r.head
    /\ wrtn' = r.wrtn
    /\ invalidateCommit' = r.invalidateCommit
    /\ pending' = NoBytes
    /\ committed' = IF r.ok THEN Keep(committed \o pending) ELSE committed
    /\ last' = NoCall
    /\ UNCHANGED <<fBuffer, size, tail, bufPtr, buf, fault>>
    /\ UNCHANGED <<groupFailed, txn, tracked, prod, cons, writers, heapVars>>

\* the consumer calls tryRead: the argument checks and the test
\* fBuffer->head == fBuffer->tail
C_tryRead(n) ==
    /\ cons.pc = "idle"
    /\ cons' = IF ArgsOk(TRUE, n) /\ ~(head = tail)
               THEN [pc |-> "load", n |-> n, data |-> NoBytes, i |-> 0]
               ELSE cons
    /\ last' = NoCall
    /\ UNCHANGED <<bufVars, ghostVars, prod, writers, heapVars>>

\* the second load of head and the test of the size against what is there
C_load ==
    /\ cons.pc = "load"
    /\ cons' = IF ReadRefused(cons.n, ReadAvail(head, tail))
               THEN IdleThread
               ELSE [cons EXCEPT !.pc = "copy"]
    /\ last' = NoCall
    /\ UNCHANGED <<bufVars, ghostVars, prod, writers, heapVars>>

\* memcpy fetches the next byte
C_copy ==
    /\ cons.pc = "copy"
    /\ cons' = [cons EXCEPT !.data = Append(cons.data, buf[BytePos(tail, cons.i)]),
                            !.i = cons.i + 1,
                            !.pc = IF cons.i + 1 = cons.n THEN "store" ELSE "copy"]
    /\ last' = NoCall
    /\ UNCHANGED <<bufVars, ghostVars, prod, writers, heapVars>>

\* fBuffer->tail = readto; tryRead returns true with the bytes fetched
C_store ==
    /\ cons.pc = "store"
    /\ tail' = NextCursor(tail, cons.n)
    /\ cons' = IdleThread
    /\ committed' = SubSeq(committed, cons.n + 1, Len(committed))
    /\ last' = Call("read", TRUE, cons.n, TRUE, cons.data, 0)
    /\ UNCHANGED <<fBuffer, size, head, wrtn, invalidateCommit, bufPtr, buf, fault>>
    /\ UNCHANGED <<pending, groupFailed, txn, tracked, prod, writers, heapVars>>

Producer ==
    \/ \E data \in BytesUpTo(MaxLenSPSC) : P_tryWrite(data)
    \/ P_copy
    \/ P_store
    \/ P_commitWrite

Consumer ==
    \/ \E n \in 0..MaxLenSPSC : C_tryRead(n)
    \/ C_load
    \/ C_copy
    \/ C_store

\* the steps of the two threads say nothing of group, which belongs to the
\* producer's caller
SPSCNext == (Producer \/ Consumer) /\ UNCHANGED group

SpecSPSC == EngineInit /\ [][SPSCNext]_vars

\* ------------------------------------------ a producer that retries a group
\* The producer's caller issues the writes of a group one after the other,
\* whatever each returns, then commitWrite; when commitWrite returns false it
\* starts the group again.  The consumer's caller reads, whenever data are
\* available, some number of the bytes that are.

RECURSIVE SumOf(_)
SumOf(sizes) == IF sizes = <<>> THEN 0 ELSE Head(sizes) + SumOf(Tail(sizes))

\* the groups of at most MaxGroupItems writes whose sizes add up to at most
\* capacity - 1
Groups ==
    {g \in UNION {[1..k -> 1..(size - 1)] : k \in 1..MaxGroupItems} :
        SumOf(g) <= size - 1}

\* the caller takes up a new group
L_begin(items) ==
    /\ group.st = "idle"
    /\ prod.pc = "idle"
    /\ group' = [st |-> "trying", items |-> items, k |-> 0, retried |-> FALSE]
    /\ last' = NoCall
    /\ UNCHANGED <<bufVars, ghostVars, prod, cons, writers, heapVars>>

\* the next write of the group: tryWrite of items[k + 1] bytes
L_write ==
    /\ group.st = "trying"
    /\ group.k < Len(group.items)
    /\ P_tryWrite([i \in 1..group.items[group.k + 1] |-> 1])
    /\ group' = [group EXCEPT !.k = group.k + 1]

\* commitWrite after the last write of the group, once that has returned
L_commit ==
    /\ group.st = "trying"
    /\ group.k = Len(group.items)
    /\ P_commitWrite
    /\ group' = IF commitWrite.ok
                 THEN [group EXCEPT !.st = "idle"]
                 ELSE [group EXCEPT !.k = 0, !.retried = TRUE]

\* the consumer's caller: isDataAvailableForReading(), then a read of some
\* of the bytes available
L_read ==
    /\ isDataAvailableForReading
    /\ \E n \in 1..Dist(tail, head, size) : C_tryRead(n)

LiveProducer ==
    \/ L_write
    \/ L_commit
    \/ P_copy /\ UNCHANGED group
    \/ P_store /\ UNCHANGED group

LiveConsumer ==
    \/ L_read /\ UNCHANGED group
    \/ C_load /\ UNCHANGED group
    \/ C_copy /\ UNCHANGED group
    \/ C_store /\ UNCHANGED group

LiveNext ==
    \/ \E items \in Groups : L_begin(items)
    \/ LiveProducer
    \/ LiveConsumer

\* each thread, when it has a step to take, takes one in the end
SpecLive ==
    EngineInit /\ [][LiveNext]_vars /\ WF_vars(LiveProducer) /\ WF_vars(LiveConsumer)

\* ------------------------------------------------------------ two producers
\* Two threads call tryWrite on the same buffer, once each.  A step holds one
\* load or store of wrtn or of a storage byte, which both threads use.

\* the store of wrtn done as an increment of the field, not of the local copy
W_store_increments(t) ==
    /\ writers[t].pc = "store"
    /\ wrtn' = NextCursor(wrtn, writers[t].n)
    /\ writers' = [writers EXCEPT ![t].pc = "done", ![t].ok = TRUE]
    /\ pending' = Keep(pending \o writers[t].data)
    /\ last' = NoCall
    /\ UNCHANGED <<fBuffer, size, head, tail, invalidateCommit, bufPtr, buf, fault>>
    /\ UNCHANGED <<committed, groupFailed, txn, tracked, prod, cons, group, heapVars>>

\* thread t calls tryWrite: the argument checks, the loads of tail and wrtn
\* into the locals and the space test; a refused write sets invalidateCommit
\* and returns false
W_tryWrite(t, data) ==
    /\ writers[t].pc = "idle"
    /\ IF ~ArgsOk(TRUE, Len(data))
       THEN /\ writers' = [writers EXCEPT ![t].pc = "done"]
            /\ UNCHANGED invalidateCommit
       ELSE IF WriteRefused(Len(data), WriteSpace(tail, wrtn))
       THEN /\ writers' = [writers EXCEPT ![t].pc = "done"]
            /\ invalidateCommit' = TRUE
       ELSE /\ writers' = [writers EXCEPT ![t] =
                    [pc |-> "copy", n |-> Len(data), data |-> data, i |-> 0,
                     w |-> wrtn, ok |-> FALSE]]
            /\ UNCHANGED invalidateCommit
    /\ last' = NoCall
    /\ UNCHANGED <<fBuffer, size, head, tail, wrtn, bufPtr, buf, fault>>
    /\ UNCHANGED <<ghostVars, prod, cons, group, heapVars>>

\* memcpy stores the next byte at the place the local wrtn gives
W_copy(t) ==
    LET me == writers[t] IN
    /\ me.pc = "copy"
    /\ buf' = [buf EXCEPT ![BytePos(me.w, me.i)] = me.data[me.i + 1]]
    /\ writers' = [writers EXCEPT ![t].i = me.i + 1,
                                  ![t].pc = IF me.i + 1 = me.n THEN "store" ELSE "copy"]
    /\ last' = NoCall
    /\ UNCHANGED <<fBuffer, size, head, tail, wrtn, invalidateCommit, bufPtr, fault>>
    /\ UNCHANGED <<ghostVars, prod, cons, group, heapVars>>

\* fBuffer->wrtn = writeto, computed from the local wrtn; tryWrite returns true
W_store(t) ==
    /\ writers[t].pc = "store"
    /\ wrtn' = NextCursor(writers[t].w, writers[t].n)
    /\ writers' = [writers EXCEPT ![t].pc = "done", ![t].ok = TRUE]
    /\ pending' = Keep(pending \o writers[t].data)
    /\ last' = NoCall
    /\ UNCHANGED <<fBuffer, size, head, tail, invalidateCommit, bufPtr, buf, fault>>
    /\ UNCHANGED <<committed, groupFailed, txn, tracked, prod, cons, group, heapVars>>

MPNext ==
    \E t \in {1, 2} :
        \/ \E data \in BytesUpTo(MaxLenSPSC) : W_tryWrite(t, data)
        \/ W_copy(t)
        \/ W_store(t)

SpecMP == EngineInit /\ [][MPNext]_vars

\* ------------------------------------------------------------------ claims

\* a step of the engine that is a write (read) call that returned
WriteStep == last'.op = "write"
ReadStep  == last'.op = "read"

\* C1: whenever some write of the group issued since the last commitWrite (or
\* clear) returned failure, for whatever reason, the next commitWrite returns
\* failure, leaves head unchanged and sets wrtn back to head
C1_FailedGroupNeverCommits ==
    [][(CommitWrite /\ groupFailed)
         => (~last'.ok /\ head' = head /\ wrtn' = head)]_vars

\* C2: from a state with nothing pending, write A succeeds, write B is refused
\* for space and commitWrite follows: commitWrite returns failure and head,
\* tail, wrtn and invalidateCommit are as before A (phase 3); a read that
\* follows returns what it would have returned before A (phase 4), so no
\* byte of A or B
C2_FailedTransactionLeavesNoTrace ==
    /\ txn.phase = 3 =>
         /\ last.op = "commit" /\ ~last.ok
         /\ head = txn.head /\ tail = txn.tail /\ wrtn = txn.wrtn
         /\ invalidateCommit = txn.flag
         /\ Readable = txn.readable
    /\ txn.phase = 4 =>
         /\ last.ok = txn.expectOk
         /\ last.ok => last.out = txn.expect

C2_Witness ==
    /\ txn.phase = 4
    /\ last.op = "read" /\ last.ok
    /\ \E i \in DOMAIN last.out : last.out[i] = 1

\* C3: commitWrite with the flag clear and head # wrtn returns success and
\* sets head to wrtn in one step, leaving tail, wrtn, the flag and the storage
\* alone; before the step the readable bytes are the committed ones only,
\* after it they are the committed ones followed by all the pending ones
C3_CommitPublishesAtOnce ==
    [][(CommitWrite /\ fBuffer # "null" /\ ~invalidateCommit /\ head # wrtn)
         => /\ last'.ok
            /\ head' = wrtn
            /\ UNCHANGED <<tail, wrtn, invalidateCommit, buf>>
            /\ pending # NoBytes
            /\ Readable = committed
            /\ Readable' = committed \o pending]_vars

C3_Witness ==
    /\ last.op = "commit" /\ last.ok
    /\ Len(Readable) = size - 1
    /\ head < tail
    /\ \E i \in DOMAIN Readable : Readable[i] = 1

\* C4: FIFO round trip: every successful read returns the oldest committed
\* bytes not yet returned, in commit order (so the reads, concatenated, are
\* a prefix of the commits, concatenated), also across the end of the
\* storage; a read of all the committed bytes leaves the buffer empty
C4_FifoRoundTrip ==
    [][(ReadStep /\ last'.ok)
         => /\ last'.size <= Len(committed)
            /\ last'.out = SubSeq(committed, 1, last'.size)
            /\ last'.size = Len(committed) => isEmpty']_vars

\* a read that crossed the end of the storage and emptied the buffer
C4_Witness ==
    /\ last.op = "read" /\ last.ok
    /\ last.size >= 2
    /\ 0 < tail /\ tail < last.size
    /\ last.out[1] # last.out[last.size]
    /\ isEmpty

\* s is the beginning of t
IsPrefix(s, t) == Len(s) <= Len(t) /\ s = SubSeq(t, 1, Len(s))

\* C5: with the producer and the consumer interleaved, the bytes between
\* tail and head are at every moment the committed bytes not yet read, in
\* commit order, and the bytes a read has fetched so far (all of them when
\* it is about to return) are the oldest of these: no byte of a pending,
\* rolled-back or half-copied group reaches the consumer
C5_ConsumerSeesCommittedOnly ==
    /\ Readable = committed
    /\ cons.pc \in {"copy", "store"} => IsPrefix(cons.data, committed)

\* a read about to return two bytes, fetched across the end of the storage,
\* while the producer is in the middle of a copy after a refused write
C5_Witness ==
    /\ cons.pc = "store" /\ cons.n = 2 /\ tail = size - 1
    /\ cons.data[1] # cons.data[2]
    /\ prod.pc = "copy"
    /\ invalidateCommit

\* C6: the three cursors of a bound buffer stay inside 0..capacity-1
C6_CursorsInRange ==
    fBuffer # "null" =>
        /\ head \in 0..(size - 1)
        /\ tail \in 0..(size - 1)
        /\ wrtn \in 0..(size - 1)

\* a write that ended exactly at the end of the storage: wrtn stored as 0
C6_Witness ==
    /\ last.op = "write" /\ last.ok
    /\ wrtn = 0
    /\ head + Len(pending) = size

IsPowerOf2(p) == \E k \in 0..p : 2 ^ k = p

\* the smallest power of two that is at least n
SmallestPowerOf2(n) ==
    CHOOSE p \in 1..(2 * n) :
        /\ IsPowerOf2(p) /\ p >= n
        /\ \A q \in 1..(p - 1) : ~(IsPowerOf2(q) /\ q >= n)

\* C7: after every createBuffer(size) with size > 0, whatever came before,
\* the engine is bound, the capacity is the smallest power of two >= size,
\* head = tail = wrtn = 0, the flag is clear and the cursors are below the
\* capacity
C7_CreateBufferResets ==
    [][(last'.op = "create" /\ last'.size > 0)
         => /\ fBuffer' = "heap"
            /\ size' = SmallestPowerOf2(last'.size)
            /\ head' = 0 /\ tail' = 0 /\ wrtn' = 0
            /\ ~invalidateCommit'
            /\ head' < size' /\ tail' < size' /\ wrtn' < size']_vars

\* C8: a write or read of size 0 or of size >= capacity returns failure and
\* changes none of head, tail, wrtn, invalidateCommit and the storage
C8_BadSizeRejected ==
    [][((WriteStep \/ ReadStep) /\ (last'.size = 0 \/ last'.size >= size))
         => (~last'.ok /\ UNCHANGED <<head, tail, wrtn, invalidateCommit, buf>>)]_vars

C8_Witness ==
    /\ last.op = "write" /\ ~last.ok
    /\ last.size = size
    /\ head = wrtn /\ head = tail
    /\ ~invalidateCommit

\* the free space a write sees: from wrtn forward to tail, the whole
\* capacity when they coincide
FreeDistance == IF wrtn = tail THEN size ELSE Dist(wrtn, tail, size)

\* C9: a write (of data at a valid address) with 0 < size < capacity succeeds
\* exactly when size is strictly less than the distance from wrtn forward to
\* tail; refused, it sets invalidateCommit and leaves wrtn, head, tail and the
\* storage; accepted, it stores the bytes at wrtn, wrtn+1, ... modulo
\* capacity, advances wrtn by size modulo capacity and leaves head, tail and
\* the flag
C9_WriteSpaceRule ==
    [][(WriteStep /\ last'.ptr /\ last'.size > 0 /\ last'.size < size)
         => /\ last'.ok <=> last'.size < FreeDistance
            /\ ~last'.ok =>
                 /\ invalidateCommit'
                 /\ UNCHANGED <<wrtn, head, tail, buf>>
            /\ last'.ok =>
                 /\ wrtn' = (wrtn + last'.size) % size
                 /\ \A i \in 1..last'.size :
                        buf'[(wrtn + i - 1) % size] = last'.out[i]
                 /\ UNCHANGED <<head, tail, invalidateCommit>>]_vars

\* a write refused although the storage still has size free bytes
C9_Witness ==
    /\ last.op = "write" /\ ~last.ok
    /\ last.size > 0 /\ last.size < size
    /\ last.size = FreeDistance
    /\ invalidateCommit

\* the committed bytes a read sees: from tail forward to head
AvailDistance == Dist(tail, head, size)

\* C10: a read (into a valid destination) with 0 < size < capacity succeeds
\* exactly when head # tail and size is at most the distance from tail
\* forward to head; refused, it changes nothing, a typed reader returns 0 and
\* readCustomData leaves the destination zeroed; accepted, it advances tail by
\* size modulo capacity and changes nothing else
C10_ReadAvailRule ==
    [][(ReadStep /\ last'.ptr /\ last'.size > 0 /\ last'.size < size)
         => /\ last'.ok <=> (head # tail /\ last'.size <= AvailDistance)
            /\ ~last'.ok =>
                 /\ UNCHANGED <<tail, head, wrtn, invalidateCommit, buf>>
                 /\ last'.val = 0
                 /\ last'.out = ZeroBytes(last'.size)
            /\ last'.ok =>
                 /\ tail' = (tail + last'.size) % size
                 /\ UNCHANGED <<head, wrtn, invalidateCommit, buf>>]_vars

\* a read refused for asking one byte more than is committed
C10_Witness ==
    /\ last.op = "read" /\ ~last.ok
    /\ last.size = AvailDistance + 1
    /\ last.size < size
    /\ head # tail

\* C11: in a bound buffer head = tail exactly when no committed byte is
\* unread: a buffer holding committed unread bytes is never reported empty,
\* not even when it is full, and isEmpty() is the negation of
\* isDataAvailableForReading()
C11_EmptyIffNothingCommitted ==
    fBuffer # "null" =>
        /\ (head = tail) <=> (Len(committed) = 0)
        /\ committed # NoBytes => (~isEmpty /\ isDataAvailableForReading)
        /\ isEmpty <=> ~isDataAvailableForReading

\* a full buffer (capacity - 1 committed unread bytes) that just refused a
\* write and reports data available
C11_Witness ==
    /\ last.op = "write" /\ ~last.ok /\ last.size = 1
    /\ size > 1
    /\ Len(committed) = size - 1
    /\ isDataAvailableForReading /\ ~isEmpty

\* C12: commitWrite with the flag clear and nothing pending (head = wrtn)
\* returns failure and changes nothing; commitWrite with the flag set returns
\* failure, sets wrtn to head, clears the flag and leaves head and tail, so
\* that a commitWrite right after it finds the flag clear and nothing pending
\* and is itself an empty commit
C12_EmptyAndFailedCommit ==
    [][(CommitWrite /\ fBuffer # "null")
         => /\ (~invalidateCommit /\ head = wrtn)
                 => (~last'.ok /\ UNCHANGED bufVars)
            /\ invalidateCommit
                 => /\ ~last'.ok
                    /\ wrtn' = head
                    /\ ~invalidateCommit'
                    /\ UNCHANGED <<head, tail, buf>>
                    /\ ~(commitWrite.ok)'
                    /\ (commitWrite.head)' = head'
                    /\ (commitWrite.wrtn)' = wrtn'
                    /\ ~(commitWrite.invalidateCommit)']_vars

\* a rollback that discarded pending bytes while committed ones wait
C12_Witness ==
    /\ txn.phase = 3
    /\ last.op = "commit" /\ ~last.ok
    /\ head = wrtn /\ ~invalidateCommit
    /\ head # tail

\* the state clear() is to leave
Cleared ==
    /\ head = 0 /\ tail = 0 /\ wrtn = 0
    /\ ~invalidateCommit
    /\ \A i \in DOMAIN buf : buf[i] = 0
    /\ isEmpty
    /\ ~isDataAvailableForReading

\* C13: a stack ring buffer right after construction has capacity 4096 and is
\* in the cleared state; and after every clear() on a bound buffer, whatever
\* it held (unread committed bytes, pending bytes, the flag set), head = tail
\* = wrtn = 0, the flag is clear, every storage byte is 0, isEmpty() is true
\* and isDataAvailableForReading() is false
C13_ClearResets ==
    /\ fBuffer = "stack" => (size = 4096 /\ DOMAIN buf = 0..4095 /\ Cleared)
    /\ [][(last'.op = "clear" /\ fBuffer # "null") => Cleared']_vars

\* clear() threw away committed unread bytes of a stack ring buffer
C13_Witness ==
    /\ last.op = "clear" /\ last.ok
    /\ fBuffer = "stack"
    /\ Len(last.out) >= 2
    /\ \E i \in DOMAIN last.out : last.out[i] = 1

\* C14 as claimed: while the engine is unbound isEmpty() returns false and
\* isDataAvailableForReading() returns true
C14_UnboundReportsData ==
    fBuffer = "null" => (~isEmpty /\ isDataAvailableForReading)

\* C14, amended: while the engine is unbound (no buffer created yet, or after
\* deleteBuffer) isEmpty() returns false and isDataAvailableForReading()
\* returns false as well
C14_UnboundReportsNothing ==
    fBuffer = "null" => (~isEmpty /\ ~isDataAvailableForReading)

\* unbound by deleteBuffer with the cursors left apart
C14_Witness ==
    /\ fBuffer = "null"
    /\ last.op = "delete" /\ last.ok
    /\ head # tail
    /\ ~fault

\* C15: copyDataFrom(rb) on a HeapBuffer whose capacity differs from rb's
\* changes no field and no storage byte of it; with equal capacities its
\* head, tail, wrtn, invalidateCommit and every storage byte afterwards
\* equal rb's; rb is unchanged either way
C15_CopyDataFrom ==
    [][(last'.op = "copy")
         => /\ size # rb.size
                 => UNCHANGED <<size, head, tail, wrtn, invalidateCommit, buf>>
            /\ size = rb.size
                 => /\ size' = size
                    /\ head' = rb.head /\ tail' = rb.tail /\ wrtn' = rb.wrtn
                    /\ invalidateCommit' = rb.invalidateCommit
                    /\ \A i \in 0..(size - 1) : buf'[i] = rb.buf[i]
            /\ rb' = rb]_vars

\* a copy between equal capacities that carried cursors, flag and bytes over
C15_Witness ==
    /\ last.op = "copy" /\ last.ok
    /\ size = MaxCopySize
    /\ head = rb.head /\ head # tail /\ wrtn # head
    /\ invalidateCommit
    /\ buf = rb.buf /\ buf[0] # buf[1]

\* the unsigned number whose bytes, least significant first, are given (its
\* top bit clear); one of 8 bytes as its two words
Magnitude(bytes) ==
    IF Len(bytes) = 8
    THEN [hi |-> Unsigned(SubSeq(bytes, 5, 8)), lo |-> Decode(SubSeq(bytes, 1, 4))]
    ELSE Unsigned(bytes)

\* C16: readUByte, readUShort, readUInt and readULong read 1, 2, 4 and 8
\* bytes, as the signed types do; the read succeeds as any read of that size
\* does; when it succeeds and the oldest committed bytes, taken as a signed
\* value, are not negative (top bit of the last byte clear) that value is
\* returned; when the sign bit is set, or the read fails, 0 is returned
C16_UnsignedReads ==
    [][(last'.op = "uread")
         => LET w      == last'.size
                stored == SubSeq(committed, 1, w)
            IN  /\ w \in {1, 2, 4, 8}
                /\ last'.ok <=> (head # tail /\ w <= AvailDistance)
                /\ last'.ok => tail' = (tail + w) % size
                /\ (last'.ok /\ stored[w] < 128) => last'.val = Magnitude(stored)
                /\ (last'.ok /\ stored[w] >= 128) => last'.val = Zero(w)
                /\ ~last'.ok => (last'.val = Zero(w) /\ tail' = tail)]_vars

\* readULong consumed a committed negative value and returned 0
C16_Witness ==
    /\ last.op = "uread" /\ last.ok
    /\ last.size = 8
    /\ last.out[8] >= 128
    /\ last.val = Zero(8)
    /\ tail = 8

\* C17: for any sequence of createBuffer(size > 0) and deleteBuffer followed
\* by the destruction, every storage region createBuffer allocated is
\* released exactly once: when the destructor has run none was lost and none
\* is still held; after deleteBuffer the engine is unbound and the capacity
\* is 0, and on an unbound engine every read, write and commitWrite fails
\* and touches nothing
C17_StorageReleasedOnce ==
    /\ [](~fault =>
            /\ last.op = "destroy" => (~leaked /\ bufPtr = "null")
            /\ (last.op = "delete" /\ last.ok)
                 => (fBuffer = "null" /\ size = 0 /\ bufPtr = "null"))
    /\ [][(fBuffer = "null" /\ last'.op \in {"read", "write", "commit"})
            => (~last'.ok /\ UNCHANGED bufVars)]_vars

\* the storage positions from a forward to b (not including b)
Between(a, b) == {(a + i) % size : i \in 0..(Dist(a, b, size) - 1)}

\* C18: no step of a write, accepted or refused, later committed or rolled
\* back, changes a storage byte at a position from tail up to (not
\* including) head, with the producer and the consumer interleaved at every
\* load and store
C18_CommittedNeverOverwritten ==
    [][\A i \in Between(tail, head) : buf'[i] = buf[i]]_vars

\* a write that crossed the end of the storage has stored its last byte
\* right behind tail, while the consumer is in the middle of a read
C18_Witness ==
    /\ prod.pc = "store" /\ prod.n >= 2
    /\ wrtn > tail
    /\ NextCursor(wrtn, prod.n) + 1 = tail
    /\ head # tail
    /\ cons.pc = "copy"
    /\ \E i \in 0..(size - 1) : buf[i] = 1

\* C19: in a bound buffer the cursors are in the circular order tail, head,
\* wrtn: the distance tail -> head plus the distance head -> wrtn is at most
\* capacity - 1; and wrtn changes only by a successful write, which moves it
\* forward by the size written, or by going back to head: the rollback of
\* commitWrite, and clear(), which puts head and wrtn at 0
C19_CursorOrder ==
    /\ [](fBuffer # "null"
            => Dist(tail, head, size) + Dist(head, wrtn, size) <= size - 1)
    /\ [][wrtn' # wrtn
            => \/ /\ WriteStep /\ last'.ok
                  /\ head' = head
                  /\ Dist(head, wrtn', size) = Dist(head, wrtn, size) + last'.size
               \/ /\ last'.op = "commit" /\ ~last'.ok
                  /\ head' = head
                  /\ wrtn' = head
               \/ /\ last'.op = "clear"
                  /\ head' = 0
                  /\ wrtn' = 0]_vars

\* committed and pending bytes together fill the buffer, wrtn one behind tail
\* after crossing the end of the storage
C19_Witness ==
    /\ last.op = "write" /\ last.ok
    /\ Dist(tail, head, size) >= 1
    /\ Dist(head, wrtn, size) >= 1
    /\ Dist(tail, head, size) + Dist(head, wrtn, size) = size - 1
    /\ wrtn < tail /\ tail < head

\* both threads' writes have returned success
BothWritten == \A t \in {1, 2} : writers[t].pc = "done" /\ writers[t].ok

\* C20: two concurrent producers lose an update: when both threads loaded
\* the same wrtn and both writes returned success, wrtn has advanced by the
\* size of one of them only, so it covers fewer bytes than were accepted,
\* and every storage byte both stored to holds one thread's byte in place of
\* the other's
C20_TwoProducersLoseAnUpdate ==
    (BothWritten /\ writers[1].w = writers[2].w) =>
        LET base == writers[1].w IN
        /\ wrtn \in {NextCursor(base, writers[t].n) : t \in {1, 2}}
        /\ Dist(head, wrtn, size) < writers[1].n + writers[2].n
        /\ Dist(head, wrtn, size) < Len(pending)
        /\ buf[base] \in {writers[t].data[1] : t \in {1, 2}}

\* both writes returned success, wrtn advanced by the shorter one only, and
\* its first byte was overwritten by the other thread's
C20_Witness ==
    /\ BothWritten
    /\ writers[1].w = writers[2].w
    /\ writers[1].n < writers[2].n
    /\ wrtn = NextCursor(writers[1].w, writers[1].n)
    /\ writers[1].data[1] # writers[2].data[1]
    /\ buf[writers[1].w] = writers[2].data[1]

\* C21: the usable capacity is capacity - 1: with nothing unread and nothing
\* pending (head = tail = wrtn, flag clear), wherever the cursors stand, a
\* write of s bytes succeeds exactly when 1 <= s <= capacity - 1; and the
\* committed unread bytes and the pending bytes together never number more
\* than capacity - 1
C21_UsableCapacity ==
    /\ [](fBuffer # "null" => Len(committed) + Len(pending) <= size - 1)
    /\ [][(WriteStep /\ last'.ptr
              /\ head = tail /\ tail = wrtn /\ ~invalidateCommit)
            => (last'.ok <=> (1 <= last'.size /\ last'.size <= size - 1))]_vars

\* a write of capacity - 1 bytes accepted by an empty buffer whose cursors
\* stand in the middle of the storage
C21_Witness ==
    /\ last.op = "write" /\ last.ok
    /\ size > 2
    /\ last.size = size - 1
    /\ head = tail /\ head > 0
    /\ Len(pending) = size - 1
    /\ committed = NoBytes

\* C23: an unsigned typed read that returns 0 because the committed value
\* has its sign bit set has consumed the value: tail has advanced by the
\* width and the value has left the committed bytes, as for a value that is
\* accepted; a read that returns 0 because too little was available leaves
\* tail and the committed bytes; both return the same 0
C23_RejectedValueIsConsumed ==
    [][(last'.op = "uread")
         => LET w == last'.size IN
            /\ last'.ok
                 => /\ tail' = (tail + w) % size
                    /\ committed' = SubSeq(committed, w + 1, Len(committed))
            /\ (last'.ok /\ committed[w] >= 128) => last'.val = Zero(w)
            /\ ~last'.ok
                 => /\ ~(head # tail /\ w <= AvailDistance)
                    /\ tail' = tail
                    /\ committed' = committed
                    /\ last'.val = Zero(w)]_vars

\* readUShort took the only committed value, a negative one, and returned 0:
\* the buffer is empty as after a read that found too little
C23_Witness ==
    /\ last.op = "uread" /\ last.ok
    /\ last.size = 2
    /\ last.out[2] >= 128
    /\ last.val = 0
    /\ tail = 2
    /\ isEmpty

\* C22: a producer that keeps retrying a group of writes of at most
\* capacity - 1 bytes in all, with commitWrite after each attempt, while the
\* consumer keeps reading what is available, commits the group successfully
\* in the end, both threads being weakly fair: from no reachable state is
\* the group refused for ever
C22_GroupEventuallyCommitted ==
    (group.st = "trying") ~> (group.st = "idle")

\* a group of two writes that fills the buffer, committed after an attempt
\* that was rolled back
C22_Witness ==
    /\ group.st = "idle"
    /\ group.retried
    /\ Len(group.items) = 2
    /\ SumOf(group.items) = size - 1
    /\ Len(committed) = size - 1

====
